---- MODULE Spec2Model ----
(***************************************************************************)
(* Model of src/app.py: a Flask survey application that classifies the     *)
(* free text of four feedback categories with a remote sentiment model and *)
(* tallies POSITIVE / NEGATIVE counts in the in-memory feedback_storage.   *)
(*                                                                         *)
(* Python strings are TLA+ strings (sequences of characters); the result   *)
(* of a Python call is a record [kind, value] with kind "return" or        *)
(* "raise".                                                                *)
(***************************************************************************)
EXTENDS Integers, Sequences, FiniteSets, TLC

\* ------------------------------------------------------------------ bounds
\* Longest prediction list the remote model is taken to answer with.
MaxPreds == 2
\* Number of HTTP requests the server handles in one behaviour.
MaxRequests == 3

\* ------------------------------------------------------- Python primitives
Ret(v) == [kind |-> "return", value |-> v]
Raise(e) == [kind |-> "raise", value |-> e]

\* str.startswith
startswith(s, prefix) ==
    /\ Len(s) >= Len(prefix)
    /\ SubSeq(s, 1, Len(prefix)) = prefix

\* The characters str.strip() removes that occur in the modelled texts.
Whitespace == {" ", "\t", "\n"}

RECURSIVE lstrip(_)
lstrip(s) ==
    IF Len(s) > 0 /\ SubSeq(s, 1, 1) \in Whitespace
    THEN lstrip(SubSeq(s, 2, Len(s)))
    ELSE s

RECURSIVE rstrip(_)
rstrip(s) ==
    IF Len(s) > 0 /\ SubSeq(s, Len(s), Len(s)) \in Whitespace
    THEN rstrip(SubSeq(s, 1, Len(s) - 1))
    ELSE s

\* A survey() that tests the text itself, without strip()
strip_forgotten(s) == s

\* str.strip
strip(s) == rstrip(lstrip(s))

\* Truth value of a Python string: the empty string is falsy.
Truthy(s) == Len(s) > 0

Digit(d) == SubSeq("0123456789", d + 1, d + 1)

\* str(n) for an integer n >= 0
RECURSIVE IntStr(_)
IntStr(n) == IF n < 10 THEN Digit(n) ELSE IntStr(n \div 10) \o Digit(n % 10)

\* format(score, ".4f"); a score is held in units of 0.0001 (9998 is 0.9998)
Fmt4f(n) ==
    IntStr(n \div 10000) \o "." \o Digit((n \div 1000) % 10)
        \o Digit((n \div 100) % 10) \o Digit((n \div 10) % 10) \o Digit(n % 10)

\* ------------------------------------------------------------- JSON values
\* A parsed JSON value. Every value carries every field, so that values of
\* different JSON types can be compared: s of a string, n of a number,
\* items of a list, entries (<<key, value>> pairs) of a dict.
JNull == [type |-> "null", s |-> "", n |-> 0, items |-> <<>>, entries |-> <<>>]
JStr(str) == [JNull EXCEPT !.type = "str", !.s = str]
JNum(num) == [JNull EXCEPT !.type = "num", !.n = num]
JList(elems) == [JNull EXCEPT !.type = "list", !.items = elems]
JDict(pairs) == [JNull EXCEPT !.type = "dict", !.entries = pairs]

\* str(x) of a parsed JSON scalar, as the f-string applies it to the label
PyStr(j) ==
    CASE j.type = "str" -> j.s
      [] j.type = "num" -> IntStr(j.n)
      [] OTHER -> "None"

\* key in d, for a parsed JSON value d: only a dict has keys
HasKey(j, key) ==
    j.type = "dict" /\ \E i \in 1..Len(j.entries) : j.entries[i][1] = key

\* d[key]
GetKey(j, key) ==
    j.entries[CHOOSE i \in 1..Len(j.entries) : j.entries[i][1] = key][2]

\* ------------------------------------------------------- analyze_sentiment
\* label = x["label"]; score = x["score"]; f"{label} (score: {score:.4f})":
\* the subscripts raise for a missing key, the format for a non-number score
FormatResult(pred) ==
    IF ~HasKey(pred, "label") \/ ~HasKey(pred, "score") THEN Raise("KeyError")
    ELSE IF GetKey(pred, "score").type # "num" THEN Raise("ValueError")
    ELSE Ret(PyStr(GetKey(pred, "label")) \o " (score: "
                \o Fmt4f(GetKey(pred, "score").n) \o ")")

\* min() in the place of max(): the least score wins
MinByScore(predictions) ==
    LET n == Len(predictions)
        score(i) == GetKey(predictions[i], "score")
        fail(e) == [kind |-> "raise", value |-> e, index |-> 0]
    IN
    IF n = 0 THEN fail("ValueError")
    ELSE IF \E i \in 1..n : predictions[i].type # "dict"
    THEN fail("TypeError")
    ELSE IF \E i \in 1..n : ~HasKey(predictions[i], "score")
    THEN fail("KeyError")
    ELSE IF \E i, j \in 1..n : score(i).type # score(j).type
    THEN fail("TypeError")
    ELSE IF \E i \in 1..n : score(i).type # "num"
    THEN [kind |-> "return", value |-> "", index |-> 1]
    ELSE [kind |-> "return", value |-> "",
          index |-> CHOOSE i \in 1..n :
                        /\ \A j \in 1..n : score(j).n >= score(i).n
                        /\ \A j \in 1..(i - 1) : score(j).n > score(i).n]

\* max(predictions, key=lambda x: x["score"]): the key is taken of every
\* element (a subscript by "score" raises on anything but a dict that has
\* it), scores of different types do not compare, and the first of the
\* greatest elements wins. index is the place of that element; when no score
\* is a number, whichever element wins, the format raises on it afterwards.
MaxByScore(predictions) ==
    LET n == Len(predictions)
        score(i) == GetKey(predictions[i], "score")
        fail(e) == [kind |-> "raise", value |-> e, index |-> 0]
    IN
    IF n = 0 THEN fail("ValueError")
    ELSE IF \E i \in 1..n : predictions[i].type # "dict"
    THEN fail("TypeError")
    ELSE IF \E i \in 1..n : ~HasKey(predictions[i], "score")
    THEN fail("KeyError")
    ELSE IF \E i, j \in 1..n : score(i).type # score(j).type
    THEN fail("TypeError")
    ELSE IF \E i \in 1..n : score(i).type # "num"
    THEN [kind |-> "return", value |-> "", index |-> 1]
    ELSE [kind |-> "return", value |-> "",
          index |-> CHOOSE i \in 1..n :
                        /\ \A j \in 1..n : score(j).n <= score(i).n
                        /\ \A j \in 1..(i - 1) : score(j).n < score(i).n]

\* The body of the try block, lines 30-48, on the response of the HTTP call
TryBody(response) ==
    IF response.status >= 400 THEN Raise("HTTPError")
    ELSE IF ~response.is_json THEN Raise("JSONDecodeError")
    ELSE LET result == response.json IN
         IF result.type = "list" /\ Len(result.items) > 0 /\ result.items[1].type = "list"
         THEN LET predictions == result.items[1].items
                  best == MaxByScore(predictions)
              IN IF best.kind = "raise" THEN Raise(best.value)
                 ELSE FormatResult(predictions[best.index])
         ELSE IF result.type = "list" /\ Len(result.items) > 0 /\ result.items[1].type = "dict"
         THEN FormatResult(result.items[1])
         ELSE Ret("Unexpected response format")

\* analyze_sentiment(text), given what requests.post does for this call:
\* requests.post stands before the try, so what it raises is not caught
analyze_sentiment(http) ==
    IF http.transport # "ok" THEN Raise(http.transport)
    ELSE LET r == TryBody(http) IN
         IF r.kind = "raise" THEN Ret("Error analyzing sentiment") ELSE r

\* A get_label_only without the final else: what is neither POSITIVE nor
\* NEGATIVE is handed on as it came
get_label_only_no_fallback(http) ==
    LET full_result == analyze_sentiment(http) IN
    IF full_result.kind = "raise" THEN full_result
    ELSE IF startswith(full_result.value, "POSITIVE") THEN Ret("POSITIVE")
    ELSE IF startswith(full_result.value, "NEGATIVE") THEN Ret("NEGATIVE")
    ELSE full_result

\* get_label_only(text), given what requests.post does for this call
get_label_only(http) ==
    LET full_result == analyze_sentiment(http) IN
    IF full_result.kind = "raise" THEN full_result
    ELSE IF startswith(full_result.value, "POSITIVE") THEN Ret("POSITIVE")
    ELSE IF startswith(full_result.value, "NEGATIVE") THEN Ret("NEGATIVE")
    ELSE Ret("NEGATIVE")

\* ------------------------------------------------- what the HTTP call does
Pred(label, score) == JDict(<< <<"label", label>>, <<"score", score>> >>)

LabelValues == {JStr("POSITIVE"), JStr("NEGATIVE"), JStr("LABEL_1"), JNull}
ScoreValues == {JNum(3), JNum(9998), JStr("0.9")}

\* What a prediction list may hold: predictions, and malformed elements
Elements ==
    {Pred(l, s) : l \in LabelValues, s \in ScoreValues}
        \cup {JDict(<< <<"label", JStr("POSITIVE")>> >>),
              JDict(<< <<"score", JNum(9998)>> >>),
              JStr("POSITIVE")}

PredLists == UNION {[1..k -> Elements] : k \in 0..MaxPreds}

\* The parsed bodies: [[...]], [...], and bodies that are neither
Results ==
    {JList(<<JList(p)>>) : p \in PredLists}
        \cup {JList(p) : p \in PredLists}
        \cup {JNull, JNum(1), JStr("POSITIVE"),
              JDict(<< <<"error", JStr("Model is loading")>> >>),
              JList(<<JNum(1)>>)}

HttpFailure(e) == [transport |-> e, status |-> 0, is_json |-> FALSE, json |-> JNull]
HttpReply(status, is_json, json) ==
    [transport |-> "ok", status |-> status, is_json |-> is_json, json |-> json]

\* Everything requests.post can do: raise, or hand back a response
Responses ==
    {HttpFailure(e) : e \in {"ConnectionError", "SSLError"}}
        \cup {HttpReply(st, FALSE, JNull) : st \in {200, 401, 503}}
        \cup {HttpReply(st, TRUE, j) : st \in {200, 503}, j \in Results}

\* The responses the request handlers are run against: one of each outcome
Replies ==
    {HttpFailure("ConnectionError"),
     HttpReply(503, TRUE, JDict(<< <<"error", JStr("Model is loading")>> >>)),
     HttpReply(200, FALSE, JNull),
     HttpReply(200, TRUE, JList(<<JList(<<Pred(JStr("NEGATIVE"), JNum(3)),
                                          Pred(JStr("POSITIVE"), JNum(9998))>>)>>)),
     HttpReply(200, TRUE, JList(<<Pred(JStr("NEGATIVE"), JNum(9998))>>)),
     HttpReply(200, TRUE, JList(<<>>))}

\* ------------------------------------------------------------------- state
Categories == {"cleanliness", "time", "courtesy", "food_quality"}
Labels == {"POSITIVE", "NEGATIVE"}

\* The order in which survey() works through the four fields
FieldOrder == <<"cleanliness", "time", "courtesy", "food_quality">>

Requests == 1..MaxRequests

\* request.form of a POST: <<name, text>> pairs
Forms ==
    {<< <<"time", "">>, <<"courtesy", " ">> >>,
     << <<"cleanliness", "ok">>, <<"time", " \t">>, <<"courtesy", " kind\n">> >>,
     << <<"cleanliness", "\n">>, <<"time", " slow ">>, <<"courtesy", "">>,
        <<"food_quality", "cold">>, <<"comment", "none">> >>}

\* request.form.get(name, default)
FormGet(form, name, default) ==
    IF \E i \in 1..Len(form) : form[i][1] = name
    THEN form[CHOOSE i \in 1..Len(form) : form[i][1] = name][2]
    ELSE default

VARIABLES
    feedback_storage,  \* the module-level dict of counters
    req,               \* per request: the handler's position and its locals
    tally,             \* history: get_label_only's returns, by category and label
    probe              \* one call of analyze_sentiment / get_label_only on its own

vars == <<feedback_storage, req, tally, probe>>

NoLabels == [c \in Categories |-> "No feedback"]

\* A request not yet received, and a request answered
Fresh ==
    [pc |-> "new", route |-> "", method |-> "", form |-> <<>>, idx |-> 0,
     labels |-> NoLabels, label |-> "", old |-> 0, status |-> 0, template |-> "",
     data |-> [c \in Categories |-> [l \in Labels |-> 0]],
     calls |-> [c \in Categories |-> 0],
     stored |-> [c \in Categories |-> ""]]
Answered == [Fresh EXCEPT !.pc = "done"]

ProbeIdle == [stage |-> "idle", http |-> HttpFailure(""), full_result |-> Ret(""),
              label |-> Ret("")]

Init ==
    /\ feedback_storage = [c \in Categories |-> [l \in Labels |-> 0]]
    /\ req = [r \in Requests |-> Fresh]
    /\ tally = [c \in Categories |-> [l \in Labels |-> 0]]
    /\ probe = ProbeIdle

\* Requests are taken in the order of their numbers
Arrives(r) ==
    /\ req[r].pc = "new"
    /\ r > 1 => req[r - 1].pc # "new"

\* ---------------------------------------------------------------- handlers
\* index(): GET /
Index(r) ==
    /\ Arrives(r)
    /\ req' = [req EXCEPT ![r] = [Fresh EXCEPT !.pc = "reply", !.route = "/",
                                    !.method = "GET", !.status = 200,
                                    !.template = "index.html"]]
    /\ UNCHANGED <<feedback_storage, tally, probe>>

\* survey(), request.method == 'GET'
SurveyGet(r) ==
    /\ Arrives(r)
    /\ req' = [req EXCEPT ![r] = [Fresh EXCEPT !.pc = "reply", !.route = "/survey",
                                    !.method = "GET", !.status = 200,
                                    !.template = "survey.html"]]
    /\ UNCHANGED <<feedback_storage, tally, probe>>

\* overall(): GET /overall hands feedback_storage to the template
Overall(r) ==
    /\ Arrives(r)
    /\ req' = [req EXCEPT ![r] = [Fresh EXCEPT !.pc = "reply", !.route = "/overall",
                                    !.method = "GET", !.status = 200,
                                    !.template = "overall.html",
                                    !.data = feedback_storage]]
    /\ UNCHANGED <<feedback_storage, tally, probe>>

\* survey(), request.method == 'POST': the form is read, the four labels
\* start as "No feedback"
SurveyPost(r) ==
    /\ Arrives(r)
    /\ \E form \in Forms :
          req' = [req EXCEPT ![r] = [Fresh EXCEPT !.pc = "field", !.route = "/survey",
                                        !.method = "POST", !.form = form, !.idx = 1,
                                        !.labels = NoLabels]]
    /\ UNCHANGED <<feedback_storage, tally, probe>>

\* After a field: on to the next one, or to the return of
\* render_template('result.html', ...)
Advance(q) ==
    IF q.idx = Len(FieldOrder)
    THEN [q EXCEPT !.pc = "reply", !.status = 200, !.template = "result.html"]
    ELSE [q EXCEPT !.pc = "field", !.idx = @ + 1]

\* An exception leaves the handler: the request is answered 500
Abort(q) == [q EXCEPT !.pc = "reply", !.status = 500, !.template = ""]

\* x -= 1 in the place of x += 1
Decr(x) == x - 1

\* x += 1
Incr(x) == x + 1

\* The courtesy block pasted from the time block with its key left as "time"
SetCountPasted(storage, category, label, value) ==
    LET key == IF category = "courtesy" THEN "time" ELSE category IN
    [storage EXCEPT ![key] =
        [k \in DOMAIN storage[key] \cup {label} |->
            IF k = label THEN value ELSE storage[key][k]]]

\* feedback_storage[category][label] = value
SetCount(storage, category, label, value) ==
    [storage EXCEPT ![category] =
        [k \in DOMAIN storage[category] \cup {label} |->
            IF k = label THEN value ELSE storage[category][k]]]

\* What one call of get_label_only may come back with
Answers == {get_label_only(http) : http \in Replies}

\* One "if <field>_text.strip():" block up to the read of the counter:
\* label = get_label_only(text); <field>_label = label; and the load of
\* feedback_storage[category][label] that += starts with
Field(r) ==
    /\ req[r].pc = "field"
    /\ LET q == req[r]
           c == FieldOrder[q.idx]
           text == FormGet(q.form, c, "")
       IN IF ~Truthy(strip(text))
          THEN /\ req' = [req EXCEPT ![r] = Advance(q)]
               /\ UNCHANGED tally
          ELSE \E got \in Answers :
                  LET called == [q EXCEPT !.calls[c] = @ + 1]
                  IN IF got.kind = "raise"
                     THEN /\ req' = [req EXCEPT ![r] = Abort(called)]
                          /\ UNCHANGED tally
                     ELSE /\ tally' = [tally EXCEPT ![c] =
                                [k \in DOMAIN tally[c] \cup {got.value} |->
                                    IF k \in DOMAIN tally[c]
                                    THEN tally[c][k] + (IF k = got.value THEN 1 ELSE 0)
                                    ELSE 1]]
                          /\ req' = [req EXCEPT ![r] =
                                IF got.value \in DOMAIN feedback_storage[c]
                                THEN [called EXCEPT !.pc = "store",
                                                    !.label = got.value,
                                                    !.labels[c] = got.value,
                                                    !.old = feedback_storage[c][got.value]]
                                ELSE Abort([called EXCEPT !.label = got.value,
                                                          !.labels[c] = got.value])]
    /\ UNCHANGED <<feedback_storage, probe>>

\* The store that ends feedback_storage[category][label] += 1
Store(r) ==
    /\ req[r].pc = "store"
    /\ LET q == req[r]
           c == FieldOrder[q.idx]
       IN /\ feedback_storage' = SetCount(feedback_storage, c, q.label, Incr(q.old))
          /\ req' = [req EXCEPT ![r] = Advance([q EXCEPT !.stored[c] = q.label])]
    /\ UNCHANGED <<tally, probe>>

\* The response is sent and the handler's locals are gone
Respond(r) ==
    /\ req[r].pc = "reply"
    /\ req' = [req EXCEPT ![r] = Answered]
    /\ UNCHANGED <<feedback_storage, tally, probe>>

Handle(r) ==
    \/ Index(r)
    \/ SurveyGet(r)
    \/ Overall(r)
    \/ SurveyPost(r)
    \/ Field(r)
    \/ Store(r)
    \/ Respond(r)

\* app.run(): the development server gives each request a thread of its own
Next == \E r \in Requests : Handle(r)

Spec == Init /\ [][Next]_vars

\* The same server when no request arrives while another is being handled
Alone(r) == \A o \in Requests \ {r} : req[o].pc \in {"new", "done"}

SeqNext == \E r \in Requests : Alone(r) /\ Handle(r)

SeqSpec == Init /\ [][SeqNext]_vars

\* ------------------------------------ the classifier adapter on its own
ClassifyInit ==
    /\ feedback_storage = [c \in Categories |-> [l \in Labels |-> 0]]
    /\ req = [r \in Requests |-> Fresh]
    /\ tally = [c \in Categories |-> [l \in Labels |-> 0]]
    /\ probe \in {[ProbeIdle EXCEPT !.stage = "called", !.http = h] : h \in Responses}

Analyze ==
    /\ probe.stage = "called"
    /\ probe' = [probe EXCEPT !.stage = "analyzed",
                              !.full_result = analyze_sentiment(probe.http)]
    /\ UNCHANGED <<feedback_storage, req, tally>>

LabelOnly ==
    /\ probe.stage = "analyzed"
    /\ probe' = [probe EXCEPT !.stage = "labelled",
                              !.label = get_label_only(probe.http)]
    /\ UNCHANGED <<feedback_storage, req, tally>>

ClassifyNext == Analyze \/ LabelOnly

ClassifySpec == ClassifyInit /\ [][ClassifyNext]_vars

\* ================================================================== claims
\* A text that is empty or holds nothing but whitespace, told character by
\* character
Blank(text) == \A i \in 1..Len(text) : SubSeq(text, i, i) \in {" ", "\t", "\n"}

InHandler(r) == req[r].pc \in {"field", "store", "reply"}
IsPost(r) == InHandler(r) /\ req[r].route = "/survey" /\ req[r].method = "POST"

\* C1: every failure of the HTTP call is caught inside analyze_sentiment,
\* which returns a default string; no exception leaves analyze_sentiment.
C1_NoEscape ==
    probe.stage \in {"analyzed", "labelled"} => probe.full_result.kind = "return"

\* C2: whenever analyze_sentiment returns a string, get_label_only returns
\* POSITIVE or NEGATIVE: POSITIVE exactly when the string begins with the
\* eight characters POSITIVE, NEGATIVE otherwise, the two default strings
\* included.
C2_BinaryLabel ==
    (probe.stage = "labelled" /\ probe.full_result.kind = "return") =>
        /\ probe.label.kind = "return"
        /\ probe.label.value \in {"POSITIVE", "NEGATIVE"}
        /\ probe.label.value = "POSITIVE" <=>
              (/\ Len(probe.full_result.value) >= 8
               /\ SubSeq(probe.full_result.value, 1, 8) = "POSITIVE")
        /\ probe.full_result.value \in
              {"Error analyzing sentiment", "Unexpected response format"}
                 => probe.label.value = "NEGATIVE"

C2_Witness ==
    /\ probe.stage = "labelled"
    /\ probe.full_result = Ret("Error analyzing sentiment")
    /\ probe.label = Ret("NEGATIVE")

\* C3: feedback_storage always has exactly the four category keys, each with
\* exactly the keys POSITIVE and NEGATIVE and a count that is a non-negative
\* integer, whatever fields the posted forms carry.
C3_StorageShape ==
    /\ DOMAIN feedback_storage = {"cleanliness", "time", "courtesy", "food_quality"}
    /\ \A c \in DOMAIN feedback_storage :
          /\ DOMAIN feedback_storage[c] = {"POSITIVE", "NEGATIVE"}
          /\ \A l \in DOMAIN feedback_storage[c] : feedback_storage[c][l] \in Nat

\* A form with a field that is no category and with a category left out has
\* been worked through and tallied
C3_Witness ==
    \E r \in Requests :
        /\ req[r].pc = "reply" /\ req[r].status = 200
        /\ FormGet(req[r].form, "comment", "") = "none"
        /\ req[r].stored["food_quality"] = "NEGATIVE"
        /\ feedback_storage["food_quality"]["NEGATIVE"] = 1

\* C4: every step leaves feedback_storage as it is or adds exactly 1 to
\* exactly one counter; no counter ever goes down.
C4_OnlyIncrements ==
    [][\/ feedback_storage' = feedback_storage
       \/ \E c \in Categories, l \in Labels :
             feedback_storage' =
                 [feedback_storage EXCEPT ![c][l] = feedback_storage[c][l] + 1]]_vars

\* C5: with requests handled one at a time, the counts /overall hands to its
\* template are, for every category and label, the number of times
\* get_label_only has returned that label for a non-blank field of that
\* category.
C5_OverallCounts ==
    \A r \in Requests :
        (req[r].pc = "reply" /\ req[r].route = "/overall") =>
            \A c \in Categories : \A l \in Labels : req[r].data[c][l] = tally[c][l]

C5_Witness ==
    \E r \in Requests :
        /\ req[r].pc = "reply" /\ req[r].route = "/overall"
        /\ req[r].data["cleanliness"]["POSITIVE"] = 1
        /\ req[r].data["courtesy"]["NEGATIVE"] = 1
        /\ req[r].data["time"]["NEGATIVE"] = 1

\* C6: in a POST /survey, for a category whose field is missing, empty or
\* all whitespace, get_label_only is not called, the request stores into
\* neither of the category's counters, and the label for the result page is
\* "No feedback"; a category's counters change only in the store of a request
\* whose field for that category is not blank.
C6_BlankLocals ==
    \A r \in Requests : \A c \in Categories :
        (IsPost(r) /\ Blank(FormGet(req[r].form, c, ""))) =>
            /\ req[r].calls[c] = 0
            /\ req[r].stored[c] = ""
            /\ req[r].labels[c] = "No feedback"

C6_BlankUntouched ==
    \A c \in Categories :
        feedback_storage'[c] # feedback_storage[c] =>
            \E r \in Requests :
                /\ req[r].pc = "store" /\ req'[r].pc # "store"
                /\ FieldOrder[req[r].idx] = c
                /\ ~Blank(FormGet(req[r].form, c, ""))

\* C6: both halves together, the locals of the request and the steps that
\* change a category's counters.
C6_BlankNotTallied == [](C6_BlankLocals) /\ [][C6_BlankUntouched]_vars

\* A form with a whitespace-only field and a tallied field reaches the
\* result page
C6_Witness ==
    \E r \in Requests :
        /\ req[r].pc = "reply" /\ req[r].status = 200
        /\ FormGet(req[r].form, "time", "") = " \t"
        /\ req[r].labels["time"] = "No feedback"
        /\ req[r].labels["cleanliness"] = "POSITIVE"
        /\ feedback_storage["time"] = [l \in Labels |-> 0]

\* C7: when survey() is through with a POST, get_label_only has been called
\* exactly once for each non-blank field, and the label kept for the result
\* page is the label whose counter the request stored into.
C7_OnceAndSame ==
    \A r \in Requests : \A c \in Categories :
        (IsPost(r) /\ req[r].pc = "reply" /\ ~Blank(FormGet(req[r].form, c, ""))) =>
            /\ req[r].calls[c] = 1
            /\ req[r].labels[c] \in Labels
            /\ req[r].labels[c] = req[r].stored[c]

\* C8: on a parsed body, analyze_sentiment reports the label of a greatest
\* score of a nested prediction list, the label of the first element of a
\* flat list of predictions, "Unexpected response format" for every body of
\* another shape, and "Error analyzing sentiment" for an empty inner list.
WellFormed(p) ==
    /\ HasKey(p, "label")
    /\ HasKey(p, "score")
    /\ GetKey(p, "score").type = "num"

Reported(p) ==
    Ret(PyStr(GetKey(p, "label")) \o " (score: " \o Fmt4f(GetKey(p, "score").n) \o ")")

C8_Shapes ==
    (/\ probe.stage \in {"analyzed", "labelled"}
     /\ probe.http.transport = "ok" /\ probe.http.status = 200 /\ probe.http.is_json) =>
        LET result == probe.http.json
            out == probe.full_result
            first == result.items[1]
        IN
        IF result.type = "list" /\ Len(result.items) > 0 /\ first.type = "list"
        THEN /\ first.items = <<>> => out = Ret("Error analyzing sentiment")
             /\ (/\ first.items # <<>>
                 /\ \A i \in 1..Len(first.items) : WellFormed(first.items[i])) =>
                    \E i \in 1..Len(first.items) :
                        /\ \A j \in 1..Len(first.items) :
                              GetKey(first.items[j], "score").n
                                  <= GetKey(first.items[i], "score").n
                        /\ out = Reported(first.items[i])
        ELSE IF result.type = "list" /\ Len(result.items) > 0 /\ first.type = "dict"
        THEN WellFormed(first) => out = Reported(first)
        ELSE out = Ret("Unexpected response format")

C8_Witness ==
    /\ probe.stage = "analyzed"
    /\ probe.http.json = JList(<<JList(<<Pred(JStr("NEGATIVE"), JNum(3)),
                                         Pred(JStr("POSITIVE"), JNum(9998))>>)>>)
    /\ probe.http.status = 200
    /\ probe.full_result = Ret("POSITIVE (score: 0.9998)")

\* C9: once concurrently handled POSTs have all completed, every counter is
\* the number of non-blank fields of its category that were classified with
\* its label: no tally is lost.
C9_NoLostTally ==
    (\A r \in Requests : req[r].pc = "done") =>
        \A c \in Categories : \A l \in Labels : feedback_storage[c][l] = tally[c][l]

====
